---------------------------- MODULE Spec2Model ----------------------------
(***************************************************************************)
(* A model of locator.py: the geo-index (KML) parser                       *)
(* download_and_parse_kml, the detail-page extractor                       *)
(* scrape_waterfall_info with its helper get_waterfall_data, and the       *)
(* __main__ loop that drives them over the configured batches and writes   *)
(* one CSV row per record.                                                 *)
(*                                                                         *)
(* Text is a sequence of one-character strings.  A few literal words the   *)
(* code looks for ("County", "Location", "Form", ...) are kept as single   *)
(* elements of such a sequence; no other element contains their letters.   *)
(* A Python value that may be None is a record: None, or Some(v).          *)
(***************************************************************************)
EXTENDS Integers, Sequences, FiniteSets, TLC

(***************************************************************************)
(* Bounds of the model.                                                    *)
(***************************************************************************)
\* longest coordinate text explored exhaustively
MaxTextLen == 4
\* longest detail URL explored exhaustively
MaxUrlLen == 3
\* most placemarks in one geo-index document
MaxPlacemarks == 2
\* most rows in one info sidebar
MaxRows == 2

(***************************************************************************)
(* Python values.                                                          *)
(***************************************************************************)
None == [has |-> FALSE]

Some(v) == [has |-> TRUE, val |-> v]

\* Python truthiness of an optional string: not None and not "".
Truthy(o) == o.has /\ o.val # <<>>

Min(S) == CHOOSE x \in S : \A y \in S : x <= y

Max(S) == CHOOSE x \in S : \A y \in S : x >= y

\* The strings over an alphabet of length at most n.
StringsUpTo(A, n) == UNION {[1..k -> A] : k \in 0..n}

\* Characters matched by \s that the model's texts contain.
IsSpace(c) == c \in {" ", "\n"}

\* Characters matched by \d that the model's texts contain.
IsDigit(c) == c \in {"0", "1", "2", "3", "4", "5", "6", "7", "8", "9"}

\* str.strip(): leading and trailing whitespace removed.
Strip(s) ==
    LET keep == {i \in 1..Len(s) : ~IsSpace(s[i])}
    IN  IF keep = {} THEN <<>> ELSE SubSeq(s, Min(keep), Max(keep))

\* str.startswith(p)
StartsWith(s, p) == Len(s) >= Len(p) /\ SubSeq(s, 1, Len(p)) = p

\* The last index of the run of digits of s that starts at p (p-1: no digit at p).
DigitRunEnd(s, p) ==
    LET stops == {e \in p..Len(s) : ~IsDigit(s[e])}
    IN  IF stops = {} THEN Len(s) ELSE Min(stops) - 1

\* re.search tries the starts from the left: ms[i] is the attempt at start i,
\* and the search gives the first attempt that matched.
Leftmost(ms) ==
    IF \A i \in DOMAIN ms : ~ms[i].ok THEN [ok |-> FALSE]
    ELSE ms[Min({i \in DOMAIN ms : ms[i].ok})]

(***************************************************************************)
(* The coordinate pattern of both parsers: a number, a comma, optional     *)
(* whitespace, a number, where a number is [-+]?\d+\.?\d* and each number  *)
(* is a captured group.  re.search applies it: the leftmost start that     *)
(* matches, each quantifier greedy, giving back only what lets the rest    *)
(* match.                                                                  *)
(***************************************************************************)
\* Every index at which a match of [-+]?\d+\.?\d* starting at i can end.
NumberEnds(s, i) ==
    IF i > Len(s) THEN {}
    ELSE
    LET p  == IF s[i] \in {"-", "+"} THEN i + 1 ELSE i
        e1 == DigitRunEnd(s, p)
    IN  IF e1 < p THEN {}
        ELSE (p..e1) \cup
             (IF e1 < Len(s) /\ s[e1 + 1] = "."
                 THEN (e1 + 1)..DigitRunEnd(s, e1 + 2)
                 ELSE {})

\* The first index at or after q that holds no whitespace (\s* is greedy and a
\* number cannot start with whitespace, so it takes the whole run).
SkipSpace(s, q) ==
    LET rest == {k \in q..Len(s) : ~IsSpace(s[k])}
    IN  IF rest = {} THEN Len(s) + 1 ELSE Min(rest)

\* The second number of the match that starts at i, whose first number ends
\* at e1 before a comma: it starts at q, after the whitespace, and is greedy.
SecondNumber(s, i, e1, q) ==
    IF NumberEnds(s, q) = {} THEN [ok |-> FALSE]
    ELSE [ok |-> TRUE,
          g1 |-> SubSeq(s, i, e1),
          g2 |-> SubSeq(s, q, Max(NumberEnds(s, q)))]

\* The first number of the match that starts at i takes the longest of ends1,
\* the ends that a comma follows.
FirstNumber(s, i, ends1) ==
    IF ends1 = {} THEN [ok |-> FALSE]
    ELSE SecondNumber(s, i, Max(ends1), SkipSpace(s, Max(ends1) + 2))

\* The match that starts at i: [ok, g1, g2], the two captured groups.
CoordsMatchAt(s, i) ==
    FirstNumber(s, i, {e \in NumberEnds(s, i) : e < Len(s) /\ s[e + 1] = ","})

\* re.search(coords_pattern, s)
CoordsSearch(s) == Leftmost([i \in 1..Len(s) |-> CoordsMatchAt(s, i)])

(***************************************************************************)
(* float() of a matched number: its sign, its whole part and its fraction  *)
(* digits without trailing zeros, so that two texts have the same record   *)
(* exactly when float() gives the same number (within the precision of a   *)
(* double, which the model's short texts do not reach).                    *)
(***************************************************************************)
DigitValue(c) ==
    CASE c = "0" -> 0 [] c = "1" -> 1 [] c = "2" -> 2 [] c = "3" -> 3
      [] c = "4" -> 4 [] c = "5" -> 5 [] c = "6" -> 6 [] c = "7" -> 7
      [] c = "8" -> 8 [] c = "9" -> 9

RECURSIVE DigitsValue(_)
DigitsValue(ds) ==
    IF ds = <<>> THEN 0
    ELSE 10 * DigitsValue(SubSeq(ds, 1, Len(ds) - 1)) + DigitValue(ds[Len(ds)])

DropTrailingZeros(ds) ==
    LET keep == {i \in 1..Len(ds) : ds[i] # "0"}
    IN  IF keep = {} THEN <<>> ELSE SubSeq(ds, 1, Max(keep))

Float(t) ==
    LET s     == Strip(t)
        p     == IF s[1] \in {"-", "+"} THEN 2 ELSE 1
        e1    == DigitRunEnd(s, p)
        whole == DigitsValue(SubSeq(s, p, e1))
        frac  == DropTrailingZeros(IF e1 < Len(s) THEN SubSeq(s, e1 + 2, Len(s))
                                                  ELSE <<>>)
    IN  [neg   |-> s[1] = "-" /\ (whole # 0 \/ frac # <<>>),
         whole |-> whole,
         frac  |-> frac]

(***************************************************************************)
(* The id pattern  [/-](\d+)$  as re.search applies it.  Python's $        *)
(* matches at the end of the text and before a newline that ends it.       *)
(***************************************************************************)
\* IdMatchAt without the separator before the digits.
IdMatchAt_noSeparator(url, i) ==
    LET e == DigitRunEnd(url, i + 1)
    IN  IF /\ e >= i + 1
           /\ \/ e = Len(url)
              \/ e = Len(url) - 1 /\ url[Len(url)] = "\n"
        THEN [ok |-> TRUE, g1 |-> SubSeq(url, i + 1, e)]
        ELSE [ok |-> FALSE]

IdMatchAt(url, i) ==
    LET e == DigitRunEnd(url, i + 1)
    IN  IF /\ url[i] \in {"/", "-"}
           /\ e >= i + 1
           /\ \/ e = Len(url)
              \/ e = Len(url) - 1 /\ url[Len(url)] = "\n"
        THEN [ok |-> TRUE, g1 |-> SubSeq(url, i + 1, e)]
        ELSE [ok |-> FALSE]

\* re.search(r'[/-](\d+)$', url)
IdSearch(url) == Leftmost([i \in 1..Len(url) |-> IdMatchAt(url, i)])

(***************************************************************************)
(* The location pattern: three groups of [^,\n]+ separated by a comma and  *)
(* optional whitespace, the first ending in the word County.  The word is  *)
(* one element "County" of the text.                                       *)
(***************************************************************************)
\* The last index of the run of characters other than "," and "\n" from p.
SegEnd(s, p) ==
    LET stops == {e \in p..Len(s) : s[e] \in {",", "\n"}}
    IN  IF stops = {} THEN Len(s) ELSE Min(stops) - 1

\* Where the last group can start after the comma at c: \s* takes the longest
\* run of whitespace that leaves the group a character.
LastGroupStarts(s, c) ==
    {q \in (c + 1)..SkipSpace(s, c + 1) : q <= Len(s) /\ SegEnd(s, q) >= q}

\* Where the middle group can start after the comma at c: it runs to the next
\* comma, and the last group must match after that.
MidGroupStarts(s, c) ==
    {q \in (c + 1)..SkipSpace(s, c + 1) :
        /\ q <= Len(s)
        /\ SegEnd(s, q) >= q
        /\ SegEnd(s, q) < Len(s)
        /\ s[SegEnd(s, q) + 1] = ","
        /\ LastGroupStarts(s, SegEnd(s, q) + 1) # {}}

\* The groups of the match that starts at i: the first ends at e1, the middle
\* one runs from q2 and the last one from q3, each start the latest possible.
LocationGroups(s, i, e1, q2, q3) ==
    [ok |-> TRUE,
     g1 |-> SubSeq(s, i, e1),
     g2 |-> SubSeq(s, q2, SegEnd(s, q2)),
     g3 |-> SubSeq(s, q3, SegEnd(s, q3))]

\* The match that starts at i when its first group ends at e1 and mids are
\* the starts of its middle group.
LocationMatchFrom(s, i, e1, mids) ==
    IF /\ e1 >= i + 1
       /\ s[e1] = "County"
       /\ e1 < Len(s)
       /\ s[e1 + 1] = ","
       /\ mids # {}
    THEN LocationGroups(s, i, e1, Max(mids),
                        Max(LastGroupStarts(s, SegEnd(s, Max(mids)) + 1)))
    ELSE [ok |-> FALSE]

LocationMatchAt(s, i) ==
    LocationMatchFrom(s, i, SegEnd(s, i), MidGroupStarts(s, SegEnd(s, i) + 1))

\* re.search(location_pattern, text_content)
LocationSearch(s) == Leftmost([i \in 1..Len(s) |-> LocationMatchAt(s, i)])

(***************************************************************************)
(* The configured batches (urls of __main__).  A geo-index URL is kept as  *)
(* urlparse splits it; the host is shortened to "w".                       *)
(***************************************************************************)
Https == <<"h", "t", "t", "p", "s">>

urls ==
    << [id_prefix |-> <<"C", "A">>,
        kml_url   |-> [scheme |-> Https, netloc |-> <<"w">>, path |-> <<"/", "C", "A">>]],
       [id_prefix |-> <<"O", "R">>,
        kml_url   |-> [scheme |-> Https, netloc |-> <<"w">>, path |-> <<"/", "O", "R">>]],
       [id_prefix |-> <<"W", "A">>,
        kml_url   |-> [scheme |-> Https, netloc |-> <<"w">>, path |-> <<"/", "W", "A">>]] >>

NumBatches == Len(urls)

(***************************************************************************)
(* urllib.parse.urljoin(base, url) for a base "scheme://netloc" with an    *)
(* empty path and the references the model's documents hold: no scheme, no *)
(* "//", no dot segment, no query, no fragment.                            *)
(***************************************************************************)
urljoin(base, url) ==
    IF url = <<>> THEN base
    ELSE IF url[1] = "/" THEN base \o url
    ELSE base \o <<"/">> \o url

(***************************************************************************)
(* download_and_parse_kml.  A placemark element is given by what the       *)
(* lookups of the loop body find in it:                                    *)
(*   name_text    the text of its name element (None: no element, or an    *)
(*                element without text)                                    *)
(*   href         the href attribute of the first link of its description  *)
(*                (None: no description, no link, or no such attribute)    *)
(*   coordinates  the text of each Point/coordinates element, in order     *)
(*                (None: an element without text)                          *)
(* A response is [fetch, wellformed, placemarks]: whether requests.get and *)
(* raise_for_status succeed, whether ET.fromstring does, and the Placemark *)
(* elements of the tree.                                                   *)
(***************************************************************************)
\* name_value after lines 63-71
ExtractName(placemark) ==
    IF Truthy(placemark.name_text)
    THEN Some(Strip(placemark.name_text.val))
    ELSE None

\* result['href'] after lines 73-95
ExtractHref(placemark, kml_url) ==
    IF Truthy(placemark.href)
    THEN LET href_value == Strip(placemark.href.val)
             base_url   == kml_url.scheme \o <<":", "/", "/">> \o kml_url.netloc
         IN  IF StartsWith(href_value, <<"/">>)
                \/ ~StartsWith(href_value, <<"h", "t", "t", "p">>)
             THEN Some(urljoin(base_url, href_value))
             ELSE Some(href_value)
    ELSE None

\* StoreCoords reading the groups as latitude, longitude.
StoreCoords_unswapped(coords_match) ==
    [raised    |-> FALSE,
     latitude  |-> Some(Float(coords_match.g1)),
     longitude |-> Some(Float(coords_match.g2))]

\* lines 102-105: the first group is the longitude, the second the latitude.
StoreCoords(coords_match) ==
    [raised    |-> FALSE,
     latitude  |-> Some(Float(coords_match.g2)),
     longitude |-> Some(Float(coords_match.g1))]

RECURSIVE CoordsLoop(_, _)
\* The loop of lines 100-105 from the j-th coordinates element: re.search
\* raises TypeError on an element without text; the first match is taken.
CoordsLoop(cs, j) ==
    IF j > Len(cs)
    THEN [raised |-> FALSE, latitude |-> None, longitude |-> None]
    ELSE IF ~cs[j].has
    THEN [raised |-> TRUE, latitude |-> None, longitude |-> None]
    ELSE IF CoordsSearch(cs[j].val).ok
    THEN StoreCoords(CoordsSearch(cs[j].val))
    ELSE CoordsLoop(cs, j + 1)

\* latitude and longitude after lines 97-105, or the exception raised there
ExtractCoords(placemark) == CoordsLoop(placemark.coordinates, 1)

\* lines 56-61 and 107-109: the record of one placemark and whether it is
\* appended to results.
PlacemarkResult(name, href, coords) ==
    [raised |-> coords.raised,
     result |-> [name      |-> name,
                 href      |-> href,
                 latitude  |-> coords.latitude,
                 longitude |-> coords.longitude],
     append |-> ~coords.raised /\ Truthy(name) /\ Truthy(href)]

\* One pass of the loop body, lines 56-109: whether it raised, the record it
\* built and whether the record was appended to results.
ParsePlacemark(placemark, kml_url) ==
    PlacemarkResult(ExtractName(placemark), ExtractHref(placemark, kml_url),
                    ExtractCoords(placemark))

\* KmlFailure letting the exception go on.
KmlFailure_propagates(results, printed) ==
    [raised |-> TRUE, results |-> <<>>, printed |-> printed]

\* What an except clause of lines 111-116 and line 118 do: print, and return
\* the results appended so far.
KmlFailure(results, printed) ==
    [raised |-> FALSE, results |-> results, printed |-> printed]

RECURSIVE PlacemarkLoop(_, _, _, _)
\* The loop of lines 55-109 from the n-th placemark, results holding what the
\* passes before it appended.  The try statement encloses the loop, so the
\* first pass that raises ends it, and line 118 returns what was appended.
PlacemarkLoop(placemarks, kml_url, n, results) ==
    IF n > Len(placemarks)
    THEN [raised |-> FALSE, results |-> results, printed |-> "none"]
    ELSE IF ParsePlacemark(placemarks[n], kml_url).raised
    THEN KmlFailure(results, "Unexpected error")
    ELSE PlacemarkLoop(placemarks, kml_url, n + 1,
             IF ParsePlacemark(placemarks[n], kml_url).append
             THEN Append(results, ParsePlacemark(placemarks[n], kml_url).result)
             ELSE results)

\* The whole function: whether an exception left it, the list it returned and
\* which except clause printed.  The last except clause catches every
\* Exception, so none leaves the function.
download_and_parse_kml(kml_url, response) ==
    IF response.fetch # "ok"
    THEN KmlFailure(<<>>, "Error downloading KML file")
    ELSE IF ~response.wellformed
    THEN KmlFailure(<<>>, "Error parsing KML XML")
    ELSE PlacemarkLoop(response.placemarks, kml_url, 1, <<>>)

(***************************************************************************)
(* scrape_waterfall_info.  A detail page is given by what the lookups      *)
(* find in the parsed document:                                            *)
(*   div_content, main, body   the flattened text (get_text) of the first  *)
(*                div of class content, of the first main element and of   *)
(*                the body (None: no such element)                         *)
(*   sidebar      the rows of the aside of class waterfall-info-sidebar,   *)
(*                each row the texts of its td cells (None: no such aside) *)
(* fault says where the call fails: "fetch" (requests.get or               *)
(* raise_for_status raises RequestException), "parse" (BeautifulSoup       *)
(* raises), "content" (the lookup of the content region or get_text        *)
(* raises), "sidebar" (the lookup of the sidebar or get_waterfall_data     *)
(* raises), or "none".  The remaining statements of the try block read a   *)
(* dict, search a str and convert matched digits, and do not raise.        *)
(***************************************************************************)
Faults == {"none", "fetch", "parse", "content", "sidebar"}

\* The rows of the sidebar that set key k, lines 123-129.
RowsOfKey(rows, k) ==
    {n \in 1..Len(rows) : Len(rows[n]) = 2 /\ Strip(rows[n][1]) # <<>>
                           /\ Strip(rows[n][1]) = k}

\* get_waterfall_data(aside).get(k): the value of the last row that sets k.
WaterfallDataGet(rows, k) ==
    IF RowsOfKey(rows, k) = {} THEN None
    ELSE Some(Strip(rows[Max(RowsOfKey(rows, k))][2]))

\* result after lines 157-169
InitialResult(name, url, data) ==
    [id        |-> None,
     name      |-> name,
     wwd_url   |-> url,
     county    |-> None,
     state     |-> None,
     country   |-> None,
     latitude  |-> data.latitude,
     longitude |-> data.longitude,
     form      |-> None,
     watershed |-> None,
     stream    |-> None]

\* result['id'] of line 174
FormatId(id_prefix, wwd_id) == id_prefix \o <<"-">> \o wwd_id

\* main_content of line 194
MainContent(page) ==
    IF page.div_content.has THEN page.div_content
    ELSE IF page.main.has THEN page.main
    ELSE page.body

\* lines 203-206: the groups of a match are stored, stripped.
StoreLocation(result, location_match) ==
    IF location_match.ok
    THEN [result EXCEPT !.county  = Some(Strip(location_match.g1)),
                        !.state   = Some(Strip(location_match.g2)),
                        !.country = Some(Strip(location_match.g3))]
    ELSE result

\* result after lines 194-206
ExtractLocation(result, page) ==
    IF MainContent(page).has
    THEN StoreLocation(result, LocationSearch(MainContent(page).val))
    ELSE result

\* OverrideCoords taking only the latitude from the page.
OverrideCoords_latitudeOnly(result, coords_match) ==
    IF coords_match.ok
    THEN [result EXCEPT !.latitude = Some(Float(coords_match.g1))]
    ELSE result

\* lines 219-221: the groups of a match replace the candidate's coordinates,
\* the first as latitude, the second as longitude.
OverrideCoords(result, coords_match) ==
    IF coords_match.ok
    THEN [result EXCEPT !.latitude  = Some(Float(coords_match.g1)),
                        !.longitude = Some(Float(coords_match.g2))]
    ELSE result

\* result after lines 213-221, coordinates being data.get('Location')
ExtractSidebarCoords(result, coordinates) ==
    IF Truthy(coordinates)
    THEN OverrideCoords(result, CoordsSearch(coordinates.val))
    ELSE result

\* result after lines 208-225
ExtractSidebar(result, page) ==
    IF page.sidebar.has
    THEN [ExtractSidebarCoords(result,
              WaterfallDataGet(page.sidebar.val, <<"Location">>))
          EXCEPT !.form      = WaterfallDataGet(page.sidebar.val, <<"Form">>),
                 !.watershed = WaterfallDataGet(page.sidebar.val, <<"Watershed">>),
                 !.stream    = WaterfallDataGet(page.sidebar.val, <<"Stream">>)]
    ELSE result

\* ReturnPartial letting the exception go on.
ReturnPartial_reraise(result, printed) ==
    [raised |-> TRUE, requests |-> 1, printed |-> printed, result |-> None]

\* What an except clause of lines 229-234 does with the record built so far.
ReturnPartial(result, printed) ==
    [raised |-> FALSE, requests |-> 1, printed |-> printed, result |-> result]

\* The try statement of lines 178-234 on the record that holds the id.
TryScrape(result, page, fault) ==
    CASE fault = "fetch"   -> ReturnPartial(result, "Error fetching URL")
      [] fault = "parse"   -> ReturnPartial(result, "Error parsing waterfall data")
      [] fault = "content" -> ReturnPartial(result, "Error parsing waterfall data")
      [] fault = "sidebar" -> ReturnPartial(ExtractLocation(result, page),
                                            "Error parsing waterfall data")
      [] OTHER             ->
             [raised |-> FALSE, requests |-> 1, printed |-> "none",
              result |-> ExtractSidebar(ExtractLocation(result, page), page)]

\* The whole call: whether it raised, the network calls it made, which except
\* clause printed, and the record it returned.
scrape_waterfall_info(name, url, id_prefix, data, page, fault) ==
    IF ~IdSearch(url).ok
    THEN [raised |-> TRUE, requests |-> 0, printed |-> "none", result |-> None]
    ELSE TryScrape([InitialResult(name, url, data)
                       EXCEPT !.id = Some(FormatId(id_prefix, IdSearch(url).g1))],
                   page, fault)

(***************************************************************************)
(* The inputs the model draws from.                                        *)
(***************************************************************************)
CoordsText == <<"1", ",", " ", "2">>

PlacemarkGood ==
    [name_text |-> Some(<<"n">>), href |-> Some(<<"/", "f", "-", "1">>),
     coordinates |-> <<Some(CoordsText)>>]

\* another waterfall whose page URL ends in the same number; no coordinates
PlacemarkOther ==
    [name_text |-> Some(<<"m">>), href |-> Some(<<"/", "g", "-", "1">>),
     coordinates |-> <<>>]

\* an absolute link without a trailing number
PlacemarkNoId ==
    [name_text |-> Some(<<"n">>),
     href |-> Some(Https \o <<":", "/", "/", "w", "/", "f">>),
     coordinates |-> <<>>]

\* a link whose target is blank
PlacemarkBlankLink ==
    [name_text |-> Some(<<"n">>), href |-> Some(<<" ">>),
     coordinates |-> <<Some(CoordsText)>>]

\* a coordinates element without text
PlacemarkEmptyCoords ==
    [name_text |-> Some(<<"n">>), href |-> Some(<<"/", "f", "-", "1">>),
     coordinates |-> <<None>>]

\* a name of whitespace only
PlacemarkBlankName ==
    [name_text |-> Some(<<" ">>), href |-> Some(<<"/", "f", "-", "1">>),
     coordinates |-> <<Some(CoordsText)>>]

\* no name, no link, no coordinates
PlacemarkBare ==
    [name_text |-> None, href |-> None, coordinates |-> <<>>]

Placemarks ==
    {PlacemarkGood, PlacemarkOther, PlacemarkNoId, PlacemarkBlankLink,
     PlacemarkEmptyCoords, PlacemarkBlankName, PlacemarkBare}

Responses ==
    {[fetch |-> "error", wellformed |-> FALSE, placemarks |-> <<>>],
     [fetch |-> "ok", wellformed |-> FALSE, placemarks |-> <<>>]}
    \cup {[fetch |-> "ok", wellformed |-> TRUE, placemarks |-> ps] :
             ps \in StringsUpTo(Placemarks, MaxPlacemarks)}

LocationText == <<"a", "County", ",", " ", "b", ",", " ", "c">>

SidebarRows ==
    << <<<<"Location">>, <<"3", ".", "5", ",", " ", "-", "4">>>>,
       <<<<"Form">>, <<"p">>>> >>

\* a page with a location line and a sidebar with coordinates
PageFull ==
    [div_content |-> Some(LocationText), main |-> None, body |-> Some(<<"a">>),
     sidebar |-> Some(SidebarRows)]

(***************************************************************************)
(* State.                                                                  *)
(*                                                                         *)
(* The run of __main__:                                                    *)
(*   pc              "batch": about to call download_and_parse_kml for     *)
(*                   batch bi; "rows": in the loop over placemark_data;    *)
(*                   "done": the loop over urls has ended; "raised": an    *)
(*                   exception left the loops and ended the program;       *)
(*                   "off": the run is not part of the specification       *)
(*   bi              the index in urls of the current batch                *)
(*   printed         which except clause of download_and_parse_kml printed *)
(*   placemark_data  the list it returned                                  *)
(*   di              the index in placemark_data of the next candidate     *)
(*   sink            the rows written with dict_writer.writerow            *)
(*   failed_batches  the batches whose fetch or parse failed (history)     *)
(* One call of download_and_parse_kml: k_batch, k_response, k_ret.         *)
(* One call of scrape_waterfall_info: s_args, s_ret.                       *)
(* One coordinate text read by both parsers: c_text, c_index, c_detail.    *)
(***************************************************************************)
VARIABLES pc, bi, printed, placemark_data, di, sink, failed_batches,
          k_batch, k_response, k_ret, s_args, s_ret, c_text, c_index, c_detail

run_vars == <<pc, bi, printed, placemark_data, di, sink, failed_batches>>

kml_vars == <<k_batch, k_response, k_ret>>

scrape_vars == <<s_args, s_ret>>

coords_vars == <<c_text, c_index, c_detail>>

vars == <<run_vars, kml_vars, scrape_vars, coords_vars>>

NotRun == [run |-> FALSE]

RunIdle ==
    /\ pc = "off" /\ bi = 0 /\ printed = "none"
    /\ placemark_data = <<>> /\ di = 0 /\ sink = <<>> /\ failed_batches = {}

KmlIdle == k_batch = 0 /\ k_response = NotRun /\ k_ret = NotRun

ScrapeIdle == s_args = NotRun /\ s_ret = NotRun

CoordsIdle == c_text = <<>> /\ c_index = NotRun /\ c_detail = NotRun

(***************************************************************************)
(* The run of __main__, lines 258-282.                                     *)
(***************************************************************************)
\* What the detail server does for one candidate of the run.
RunPages == {PageFull}

RunFaults == {"none", "fetch"}

\* What the geo-index server answers for one batch of the run.
RunResponses ==
    {r \in Responses : \A n \in 1..Len(r.placemarks) : r.placemarks[n] # PlacemarkOther}

RunInit ==
    /\ pc = "batch" /\ bi = 1 /\ printed = "none"
    /\ placemark_data = <<>> /\ di = 0 /\ sink = <<>> /\ failed_batches = {}
    /\ KmlIdle /\ ScrapeIdle /\ CoordsIdle

\* The assignment of line 267 when the call ended as ret says.
AssignPlacemarkData(ret) ==
    /\ printed' = ret.printed
    /\ placemark_data' = IF ret.raised THEN placemark_data ELSE ret.results
    /\ pc' = IF ret.raised THEN "raised" ELSE "rows"

\* line 267: placemark_data = download_and_parse_kml(kml_url).  The call is in
\* no try statement: an exception leaving it would end the program.
DownloadBatch ==
    /\ pc = "batch"
    /\ \E resp \in RunResponses :
          /\ AssignPlacemarkData(download_and_parse_kml(urls[bi].kml_url, resp))
          /\ failed_batches' =
                 IF resp.fetch # "ok" \/ ~resp.wellformed
                 THEN failed_batches \cup {bi} ELSE failed_batches
    /\ di' = 1
    /\ UNCHANGED <<bi, sink, kml_vars, scrape_vars, coords_vars>>

\* lines 272-280 when the call of line 272 ended as ret says.
WriteRow(ret) ==
    IF ret.raised
    THEN /\ pc' = "raised"
         /\ UNCHANGED <<di, sink>>
    ELSE /\ sink' = Append(sink, ret.result)
         /\ di' = di + 1
         /\ pc' = pc

\* lines 272-280: one pass of the loop over placemark_data.  An exception of
\* scrape_waterfall_info is caught nowhere and ends the program.
ScrapeCandidate ==
    /\ pc = "rows"
    /\ di <= Len(placemark_data)
    /\ \E page \in RunPages, fault \in RunFaults :
          WriteRow(scrape_waterfall_info(placemark_data[di].name.val,
                                         placemark_data[di].href.val,
                                         urls[bi].id_prefix,
                                         placemark_data[di], page, fault))
    /\ UNCHANGED <<bi, printed, placemark_data, failed_batches,
                   kml_vars, scrape_vars, coords_vars>>

\* The loop over placemark_data has ended (or the list was empty, line 282):
\* the loop over urls goes on with the next batch.
NextBatch ==
    /\ pc = "rows"
    /\ di > Len(placemark_data)
    /\ bi' = bi + 1
    /\ pc' = IF bi < NumBatches THEN "batch" ELSE "done"
    /\ printed' = "none"
    /\ placemark_data' = <<>>
    /\ di' = 0
    /\ UNCHANGED <<sink, failed_batches, kml_vars, scrape_vars, coords_vars>>

RunNext == DownloadBatch \/ ScrapeCandidate \/ NextBatch

Spec == RunInit /\ [][RunNext]_vars

(***************************************************************************)
(* One call of download_and_parse_kml on its own, for any batch and any    *)
(* response.                                                               *)
(***************************************************************************)
KmlInit ==
    /\ k_batch \in 1..NumBatches
    /\ k_response \in Responses
    /\ k_ret = NotRun
    /\ RunIdle /\ ScrapeIdle /\ CoordsIdle

CallParseKml ==
    /\ k_ret = NotRun
    /\ k_ret' = download_and_parse_kml(urls[k_batch].kml_url, k_response)
    /\ UNCHANGED <<k_batch, k_response, run_vars, scrape_vars, coords_vars>>

SpecKml == KmlInit /\ [][CallParseKml]_vars

(***************************************************************************)
(* One call of scrape_waterfall_info on its own, over a wider range of     *)
(* pages, faults and URLs than the run draws.                              *)
(***************************************************************************)
OtherLocationText == <<"d", "County", ",", "e", ",", "f">>

RowKinds ==
    { <<<<"Location">>, <<"3", ".", "5", ",", " ", "-", "4">>>>,
      <<<<" ", "Location">>, <<"x">>>>,
      <<<<"Location">>, <<>>>>,
      <<<<"Form">>, <<"p">>>>,
      <<<<"Stream">>, <<"q">>, <<"r">>>>,
      <<<<" ">>, <<"3", ",", "4">>>> }

Pages ==
    [div_content : {None, Some(LocationText)},
     main        : {None, Some(OtherLocationText)},
     body        : {None, Some(<<"a", ",", "b">>)},
     sidebar     : {None} \cup {Some(rows) : rows \in StringsUpTo(RowKinds, MaxRows)}]

\* a candidate as download_and_parse_kml returns it
Candidate(url, latitude, longitude) ==
    [name |-> Some(<<"n">>), href |-> Some(url),
     latitude |-> latitude, longitude |-> longitude]

CandidateLat == [neg |-> FALSE, whole |-> 1, frac |-> <<>>]

CandidateLng == [neg |-> FALSE, whole |-> 2, frac |-> <<>>]

UrlAlphabet == {"/", "-", "1", "2", "f"}

IdUrl == <<"/", "f", "-", "1">>

ScrapeArgs ==
    {[name |-> <<"n">>, url |-> IdUrl, id_prefix |-> urls[1].id_prefix,
      data |-> data, page |-> page, fault |-> fault] :
        data \in {Candidate(IdUrl, None, None),
                  Candidate(IdUrl, Some(CandidateLat), Some(CandidateLng))},
        page \in Pages, fault \in Faults}
    \cup
    {[name |-> <<"n">>, url |-> url, id_prefix |-> urls[2].id_prefix,
      data |-> Candidate(url, Some(CandidateLat), Some(CandidateLng)),
      page |-> PageFull, fault |-> fault] :
        url \in StringsUpTo(UrlAlphabet, MaxUrlLen), fault \in Faults}

ScrapeInit ==
    /\ s_args \in ScrapeArgs
    /\ s_ret = NotRun
    /\ RunIdle /\ KmlIdle /\ CoordsIdle

CallScrape ==
    /\ s_ret = NotRun
    /\ s_ret' = scrape_waterfall_info(s_args.name, s_args.url, s_args.id_prefix,
                                      s_args.data, s_args.page, s_args.fault)
    /\ UNCHANGED <<s_args, run_vars, kml_vars, coords_vars>>

SpecScrape == ScrapeInit /\ [][CallScrape]_vars

(***************************************************************************)
(* One text read as coordinates by both parsers: as the only               *)
(* Point/coordinates element of the only placemark of a geo-index, and as  *)
(* the Location value of a detail page's sidebar.                          *)
(***************************************************************************)
CoordsAlphabet == {"1", "2", "-", "+", ".", ",", " ", "x"}

\* "-122.5, 45.3"
ExampleIndexText == <<"-", "1", "2", "2", ".", "5", ",", " ", "4", "5", ".", "3">>

\* "45.3, -122.5"
ExampleSidebarText == <<"4", "5", ".", "3", ",", " ", "-", "1", "2", "2", ".", "5">>

CoordsTexts ==
    StringsUpTo(CoordsAlphabet, MaxTextLen) \cup {ExampleIndexText, ExampleSidebarText}

\* ElementTree gives None as the text of an element that has none.
ElementText(t) == IF t = <<>> THEN None ELSE Some(t)

CoordsInit ==
    /\ c_text \in CoordsTexts
    /\ c_index = NotRun
    /\ c_detail = NotRun
    /\ RunIdle /\ KmlIdle /\ ScrapeIdle

ReadIndex ==
    /\ c_index = NotRun
    /\ c_index' =
          download_and_parse_kml(
              urls[1].kml_url,
              [fetch |-> "ok", wellformed |-> TRUE,
               placemarks |-> << [name_text |-> Some(<<"n">>),
                                  href |-> Some(<<"/", "f", "-", "1">>),
                                  coordinates |-> <<ElementText(c_text)>>] >>])
    /\ UNCHANGED <<c_text, c_detail, run_vars, kml_vars, scrape_vars>>

ReadSidebar ==
    /\ c_detail = NotRun
    /\ c_detail' =
          scrape_waterfall_info(
              <<"n">>, <<"/", "f", "-", "1">>, urls[1].id_prefix,
              Candidate(<<"/", "f", "-", "1">>, None, None),
              [div_content |-> None, main |-> None, body |-> None,
               sidebar |-> Some(<< <<<<"Location">>, c_text>> >>)],
              "none")
    /\ UNCHANGED <<c_text, c_index, run_vars, kml_vars, scrape_vars>>

CoordsNext == ReadIndex \/ ReadSidebar

SpecCoords == CoordsInit /\ [][CoordsNext]_vars

(***************************************************************************)
(* Properties.                                                             *)
(***************************************************************************)
F45_3 == [neg |-> FALSE, whole |-> 45, frac |-> <<"3">>]

Fm122_5 == [neg |-> TRUE, whole |-> 122, frac |-> <<"5">>]

CoordsRead == c_index # NotRun /\ c_detail # NotRun

\* C8: the two parsers read the same text "a, b" in opposite orders: the
\* geo-index parser stores latitude=b, longitude=a, the detail extractor
\* stores latitude=a, longitude=b; "-122.5, 45.3" in the index and
\* "45.3, -122.5" in the sidebar both give latitude 45.3, longitude -122.5.
C8_OppositeOrders ==
    (CoordsRead /\ c_text # <<>>) =>
        /\ ~c_index.raised /\ Len(c_index.results) = 1
        /\ ~c_detail.raised
        /\ c_index.results[1].latitude = c_detail.result.longitude
        /\ c_index.results[1].longitude = c_detail.result.latitude
        /\ c_index.results[1].latitude.has = c_index.results[1].longitude.has
        /\ c_text = ExampleIndexText =>
              /\ c_index.results[1].latitude = Some(F45_3)
              /\ c_index.results[1].longitude = Some(Fm122_5)
        /\ c_text = ExampleSidebarText =>
              /\ c_detail.result.latitude = Some(F45_3)
              /\ c_detail.result.longitude = Some(Fm122_5)

C8_Witness ==
    /\ CoordsRead
    /\ c_text = ExampleIndexText
    /\ c_index.results[1].latitude = Some(F45_3)
    /\ c_detail.result.longitude = Some(F45_3)

\* The digits a URL ends in.
TrailingDigits(url) ==
    LET others == {i \in 1..Len(url) : ~IsDigit(url[i])}
    IN  IF others = {} THEN url ELSE SubSeq(url, Max(others) + 1, Len(url))

\* The URL ends in a run of digits preceded by "/" or "-".
EndsInNumber(url) ==
    /\ TrailingDigits(url) # <<>>
    /\ Len(TrailingDigits(url)) < Len(url)
    /\ url[Len(url) - Len(TrailingDigits(url))] \in {"/", "-"}

Scraped == s_ret # NotRun

\* C6: called with a URL that does not end in a run of digits preceded by "/"
\* or "-", scrape_waterfall_info raises before any network call and returns
\* no record; otherwise the record's id is the prefix, "-" and the trailing
\* digits, whatever the fetch and the extraction do.
C6_IdOrRaise ==
    Scraped =>
        IF EndsInNumber(s_args.url)
        THEN /\ ~s_ret.raised
             /\ s_ret.result.id
                   = Some(s_args.id_prefix \o <<"-">> \o TrailingDigits(s_args.url))
        ELSE /\ s_ret.raised
             /\ s_ret.requests = 0
             /\ s_ret.result = None

C6_Witness ==
    /\ Scraped
    /\ s_args.url = <<"f", "-", "2">>
    /\ s_args.fault = "parse"
    /\ s_ret.result.id = Some(<<"O", "R", "-", "2">>)

AbsentFields(r, fields) == \A f \in fields : r[f] = None

\* The location fields of the page, as a call without fault returns them.
PageLocation(args) ==
    LET full == scrape_waterfall_info(args.name, args.url, args.id_prefix,
                                      args.data, args.page, "none").result
    IN  [county |-> full.county, state |-> full.state, country |-> full.country]

\* C4: for a URL that yields an id, a failure after the id derivation does not
\* leave scrape_waterfall_info: it returns the record built so far, with id,
\* name and URL set, the fields assigned before the failure kept, the fields
\* not yet reached absent and the coordinates those of the candidate; on a
\* fetch failure county, state, country, form, watershed and stream are absent.
C4_PartialRecord ==
    (Scraped /\ EndsInNumber(s_args.url) /\ s_args.fault # "none") =>
        /\ ~s_ret.raised
        /\ s_ret.result.id.has
        /\ s_ret.result.name = s_args.name
        /\ s_ret.result.wwd_url = s_args.url
        /\ s_ret.result.latitude = s_args.data.latitude
        /\ s_ret.result.longitude = s_args.data.longitude
        /\ AbsentFields(s_ret.result, {"form", "watershed", "stream"})
        /\ IF s_args.fault = "sidebar"
           THEN /\ s_ret.result.county = PageLocation(s_args).county
                /\ s_ret.result.state = PageLocation(s_args).state
                /\ s_ret.result.country = PageLocation(s_args).country
           ELSE AbsentFields(s_ret.result, {"county", "state", "country"})

C4_Witness ==
    /\ Scraped
    /\ s_args.fault = "fetch"
    /\ s_args.page = PageFull
    /\ ~s_ret.raised
    /\ s_ret.result.latitude = Some(CandidateLat)
    /\ s_ret.result.county = None

\* The Location value of the page's sidebar, None when it has none.
SidebarLocation(page) ==
    IF page.sidebar.has THEN WaterfallDataGet(page.sidebar.val, <<"Location">>)
    ELSE None

\* The call got as far as reading a Location value that matches the pattern.
PageGivesCoords(args) ==
    /\ args.fault = "none"
    /\ Truthy(SidebarLocation(args.page))
    /\ CoordsSearch(SidebarLocation(args.page).val).ok

\* C7: the record's latitude and longitude are the page's when the sidebar has
\* a Location value that matches the pattern, and the candidate's (possibly
\* absent) in every other case; they never come one from each.
C7_CoordsFromOneSource ==
    (Scraped /\ ~s_ret.raised) =>
        IF PageGivesCoords(s_args)
        THEN LET m == CoordsSearch(SidebarLocation(s_args.page).val)
             IN  /\ s_ret.result.latitude = Some(Float(m.g1))
                 /\ s_ret.result.longitude = Some(Float(m.g2))
        ELSE /\ s_ret.result.latitude = s_args.data.latitude
             /\ s_ret.result.longitude = s_args.data.longitude

C7_Witness ==
    /\ Scraped
    /\ ~s_ret.raised
    /\ s_args.data.latitude = Some(CandidateLat)
    /\ PageGivesCoords(s_args)
    /\ s_ret.result.latitude = Some([neg |-> FALSE, whole |-> 3, frac |-> <<"5">>])
    /\ s_ret.result.longitude = Some([neg |-> TRUE, whole |-> 4, frac |-> <<>>])

\* download_and_parse_kml reported a failure of the fetch or of the parse of
\* the document.
BatchFailed(message) ==
    message \in {"Error downloading KML file", "Error parsing KML XML"}

\* The rows of the sink written for batch b.
RowsOfBatch(b) ==
    {i \in 1..Len(sink) : StartsWith(sink[i].id.val, urls[b].id_prefix)}

\* C3: a batch whose geo-index fetch fails or whose document is malformed
\* yields no records, and only that: the run does not end there, the rows
\* written so far stay, and the loop goes on with the next batch as it does
\* after any batch.
C3_BatchFailureSkipsOnlyThatBatch ==
    [][/\ (pc = "batch" /\ BatchFailed(printed')) =>
              /\ pc' = "rows"
              /\ placemark_data' = <<>>
              /\ sink' = sink
              /\ bi' = bi
       /\ (pc = "rows" /\ bi \in failed_batches) =>
              /\ pc' = (IF bi < NumBatches THEN "batch" ELSE "done")
              /\ bi' = bi + 1
              /\ sink' = sink
       /\ Len(sink') >= Len(sink) /\ SubSeq(sink', 1, Len(sink)) = sink]_vars

C3_Witness ==
    /\ pc = "done"
    /\ failed_batches = {2}
    /\ RowsOfBatch(1) # {} /\ RowsOfBatch(2) = {} /\ RowsOfBatch(3) # {}

\* C1: the failure of one candidate (a failed detail fetch, a parse exception,
\* a detail URL without an id) never blocks the candidates after it: when the
\* run has ended, no candidate of the batch and no later batch is left.
C1_CandidateFailureNeverBlocks ==
    pc \in {"done", "raised"} =>
        \/ bi = NumBatches + 1
        \/ bi = NumBatches /\ di = Len(placemark_data)

\* The text is None, empty or whitespace only.
Blank(o) == ~o.has \/ Strip(o.val) = <<>>

\* A well-formed document was fetched and download_and_parse_kml has run on it.
Parsed == k_ret # NotRun /\ k_response.fetch = "ok" /\ k_response.wellformed

\* Placemark n of the document has a non-empty name and a link.
HasNameAndLink(n) ==
    /\ ~Blank(k_response.placemarks[n].name_text)
    /\ ~Blank(k_response.placemarks[n].href)

\* The extraction of placemark n raises.
Raises(n) == ParsePlacemark(k_response.placemarks[n], urls[k_batch].kml_url).raised

\* C2: a placemark whose extraction raises is skipped individually: every
\* other placemark with a non-empty name and link, those after it included,
\* is emitted as a candidate.
C2_BadPlacemarkSkippedAlone ==
    Parsed =>
        \A n \in 1..Len(k_response.placemarks) :
            (HasNameAndLink(n) /\ ~Raises(n)) =>
                \E k \in 1..Len(k_ret.results) :
                    k_ret.results[k]
                        = ParsePlacemark(k_response.placemarks[n],
                                         urls[k_batch].kml_url).result

\* A URL with a scheme and a host.
IsAbsoluteUrl(u) ==
    \E i \in 2..(Len(u) - 3) :
        /\ SubSeq(u, i, i + 2) = <<":", "/", "/">>
        /\ u[i + 3] # "/"

\* C5: every candidate has a name that is non-empty after trimming and an
\* absolute detail URL, and a placemark whose name is missing or blank, or
\* that has no link or only a blank link target, is never emitted.
C5_CandidatesHaveNameAndUrl ==
    Parsed =>
        /\ \A k \in 1..Len(k_ret.results) :
              /\ Strip(k_ret.results[k].name.val) # <<>>
              /\ IsAbsoluteUrl(k_ret.results[k].href.val)
        /\ Len(k_ret.results)
              <= Cardinality({n \in 1..Len(k_response.placemarks) : HasNameAndLink(n)})

\* C9: a field-level miss (a missing name, missing or empty coordinates, no
\* link) is never an error: parsing a well-formed document whose placemarks
\* only miss fields reports no error.
C9_MissIsNeverAnError ==
    Parsed => ~k_ret.raised /\ k_ret.printed = "none"

\* C10: within one batch no two records have the same id.
C10_IdsUnique ==
    \A i, j \in 1..Len(sink) : i # j => sink[i].id # sink[j].id

=============================================================================
